---- MODULE Spec2Model ----
(***************************************************************************)
(* Device layout planner of the EdgeFS target                              *)
(* (pkg/operator/edgefs/cluster/target/layout.go).                         *)
(*                                                                         *)
(* Strings are sequences of one-character strings, so that Split, Replace  *)
(* and Contains are computed character by character as the Go library      *)
(* computes them.  A Go pointer or error value is a sequence of length 0   *)
(* (nil) or 1 (the value pointed to).                                      *)
(***************************************************************************)
EXTENDS Integers, Sequences, FiniteSets

VARIABLES pc, nodeDisks, storeConfig, rtDevices, err, hdds_divided,
          directories, rtlfsDevices, dls, dl

vars == <<pc, nodeDisks, storeConfig, rtDevices, err, hdds_divided,
          directories, rtlfsDevices, dls, dl>>

----------------------------------------------------------------------------
(* Bounds of the checked input spaces.                                     *)

MaxDisks == 3

MaxHybridDisks == 6

MaxParts == 1

MaxPLevel == 1

MaxCandidates == 3

MaxDirs == 2

MaxMaxSize == 1

----------------------------------------------------------------------------
(* String literals.                                                        *)

EmptyStr == <<>>

Space == <<" ">>

Slash == <<"/">>

Comma == <<",">>

Dot == <<".">>

DevDir == <<"/", "d", "e", "v", "/">>

ByIdDir == <<"/", "d", "e", "v", "/", "d", "i", "s", "k", "/", "b", "y", "-", "i", "d", "/">>

WwnTag == <<"w", "w", "n", "-">>

----------------------------------------------------------------------------
(* Go strings library, as used by getIdDevLinkName.                        *)

\* s has sub at (1-based) position i.
HasAt(s, sub, i) ==
    /\ i >= 1
    /\ i + Len(sub) - 1 <= Len(s)
    /\ SubSeq(s, i, i + Len(sub) - 1) = sub

\* The first position from i on where s has sub; 0 when there is none.
RECURSIVE IndexFrom(_, _, _)
IndexFrom(s, sub, i) ==
    IF i + Len(sub) - 1 > Len(s) THEN 0
    ELSE IF HasAt(s, sub, i) THEN i
    ELSE IndexFrom(s, sub, i + 1)

\* strings.Index, 1-based; 0 when sub does not occur in s.
Index(s, sub) == IndexFrom(s, sub, 1)

\* strings.Contains(s, sub)
Contains(s, sub) == Index(s, sub) # 0

\* strings.Replace(s, old, new, 1) for a non-empty old: the first occurrence
\* of old, wherever it is, is replaced.
Replace1(s, old, new) ==
    LET i == Index(s, old)
    IN  IF i = 0 THEN s
        ELSE SubSeq(s, 1, i - 1) \o new \o SubSeq(s, i + Len(old), Len(s))

\* strings.Split(s, sep) for a non-empty sep: every separator cuts, so
\* Split("", " ") = [""] and "a  b" has an empty middle element.
RECURSIVE Split(_, _)
Split(s, sep) ==
    LET i == Index(s, sep)
    IN  IF i = 0 THEN <<s>>
        ELSE <<SubSeq(s, 1, i - 1)>> \o Split(SubSeq(s, i + Len(sep), Len(s)), sep)

\* Line 39: the candidate with the first "/dev/disk/by-id/" removed.
StripById(c) == Replace1(c, ByIdDir, EmptyStr)

\* Line 40 (the condition of the continue).
Skipped(s) == Contains(s, Slash) \/ Contains(s, WwnTag)

\* A variant of the loop without the break: the last kept candidate wins.
FirstKept_nobreak(dlsArr, i) ==
    LET kept == {j \in i..Len(dlsArr) : ~Skipped(StripById(dlsArr[j]))}
    IN  IF kept = {} THEN EmptyStr
        ELSE StripById(dlsArr[CHOOSE j \in kept : \A k \in kept : k <= j])

\* Lines 38-45: the loop from index i on; dl keeps its zero value "" when
\* every candidate is skipped.
RECURSIVE FirstKept(_, _)
FirstKept(dlsArr, i) ==
    IF i > Len(dlsArr) THEN EmptyStr
    ELSE LET s == StripById(dlsArr[i])
         IN  IF Skipped(s) THEN FirstKept(dlsArr, i + 1) ELSE s

getIdDevLinkName(links) == FirstKept(Split(links, Space), 1)

----------------------------------------------------------------------------
(* Values of the Go types.                                                 *)

\* error: nil, or the format and arguments given to fmt.Errorf.
NoError == <<>>

Errorf(format, args) == <<[format |-> format, args |-> args]>>

\* *config.StoreConfig: nil, or a pointer to a configuration.
NilConfig == <<>>

\* The zero value of edgefsv1alpha1.RTDevice.
ZeroRTDevice ==
    [Name |-> EmptyStr, Device |-> EmptyStr, Psize |-> 0, VerifyChid |-> 0,
     BcacheWritearound |-> 0, Journal |-> EmptyStr, Metadata |-> EmptyStr,
     Bcache |-> 0, Sync |-> 0, PlevelOverride |-> 0]

\* The zero value of edgefsv1alpha1.RtlfsDevice.
ZeroRtlfsDevice ==
    [Name |-> EmptyStr, Path |-> EmptyStr, CheckMountpoint |-> 0, Psize |-> 0,
     VerifyChid |-> 0, Sync |-> 0, Maxsize |-> 0, PlevelOverride |-> 0]

----------------------------------------------------------------------------
(* GetRTDevices.                                                           *)

\* Line 64 ignores a disk that is not Empty or has partitions.
Eligible_anyparts(d) == d.Empty

Eligible(d) == ~(~d.Empty \/ d.Partitions > 0)

IsHDD(d) == d.Rotational

IsSSD(d) == ~d.Rotational

\* Lines 63-73: the three lists built by the classification loop.
Devices(disks) == SelectSeq(disks, Eligible)

Hdds(disks) == SelectSeq(Devices(disks), IsHDD)

Ssds(disks) == SelectSeq(Devices(disks), IsSSD)

\* Lines 80 and 106: no media of the required type.
NoMedia_unchecked(ds) == FALSE

NoMedia(ds) == Len(ds) = 0

\* Lines 91-100 and 118-127: the assignment of the two non-hybrid policies.
PlainRTDevice_nodir(d, cfg) ==
    [ZeroRTDevice EXCEPT
        !.Name = getIdDevLinkName(d.DevLinks),
        !.Device = d.Name,
        !.Psize = cfg.LmdbPageSize,
        !.VerifyChid = cfg.RtVerifyChid,
        !.Sync = cfg.Sync,
        !.PlevelOverride = IF cfg.RtPLevelOverride # 0 THEN cfg.RtPLevelOverride ELSE 0]

PlainRTDevice(d, cfg) ==
    [ZeroRTDevice EXCEPT
        !.Name = getIdDevLinkName(d.DevLinks),
        !.Device = DevDir \o d.Name,
        !.Psize = cfg.LmdbPageSize,
        !.VerifyChid = cfg.RtVerifyChid,
        !.Sync = cfg.Sync,
        !.PlevelOverride = IF cfg.RtPLevelOverride # 0 THEN cfg.RtPLevelOverride ELSE 0]

\* Lines 87-102 and 114-129: one assignment per listed disk, in order.
RECURSIVE PlainDevices(_, _)
PlainDevices(ds, cfg) ==
    IF ds = <<>> THEN <<>>
    ELSE <<PlainRTDevice(Head(ds), cfg)>> \o PlainDevices(Tail(ds), cfg)

\* Lines 142-150: the size of the next group when n disks remain for i groups.
ChunkSize_floor(n, i) ==
    LET chunkSize == n \div i
    IN  IF n < chunkSize THEN n ELSE chunkSize

ChunkSize(n, i) ==
    LET q         == n \div i
        chunkSize == IF n % i > 0 THEN q + 1 ELSE q
    IN  IF n < chunkSize THEN n ELSE chunkSize

\* Lines 141-153: the loop from counter i down to 1 over the remaining hdds.
RECURSIVE Divide(_, _)
Divide(hdds, i) ==
    IF i <= 0 THEN <<>>
    ELSE LET chunkSize == ChunkSize(Len(hdds), i)
         IN  <<SubSeq(hdds, 1, chunkSize)>>
                 \o Divide(SubSeq(hdds, chunkSize + 1, Len(hdds)), i - 1)

\* Line 162: (map[bool]int{true: 0, false: 1})[UseBCacheWB]
WritearoundOf(wb) == IF wb THEN 0 ELSE 1

\* Lines 157-178: the assignment of a rotational disk paired with ssd.
HybridRTDevice_nocomma(hdd, ssd, cfg) ==
    [ZeroRTDevice EXCEPT
        !.Name = getIdDevLinkName(hdd.DevLinks),
        !.Device = DevDir \o hdd.Name,
        !.Psize = cfg.LmdbPageSize,
        !.VerifyChid = cfg.RtVerifyChid,
        !.BcacheWritearound = WritearoundOf(cfg.UseBCacheWB),
        !.Journal = getIdDevLinkName(ssd.DevLinks),
        !.Metadata = getIdDevLinkName(ssd.DevLinks) \o cfg.UseMetadataMask,
        !.Bcache = IF cfg.UseBCache THEN 1 ELSE 0,
        !.Sync = cfg.Sync,
        !.PlevelOverride = IF cfg.RtPLevelOverride # 0 THEN cfg.RtPLevelOverride ELSE 0]

HybridRTDevice(hdd, ssd, cfg) ==
    LET rtdev == [ZeroRTDevice EXCEPT
                    !.Name = getIdDevLinkName(hdd.DevLinks),
                    !.Device = DevDir \o hdd.Name,
                    !.Psize = cfg.LmdbPageSize,
                    !.VerifyChid = cfg.RtVerifyChid,
                    !.BcacheWritearound = WritearoundOf(cfg.UseBCacheWB),
                    !.Journal = getIdDevLinkName(ssd.DevLinks),
                    !.Metadata = getIdDevLinkName(ssd.DevLinks) \o Comma \o cfg.UseMetadataMask,
                    !.Bcache = 0,
                    !.Sync = cfg.Sync]
        cached == IF cfg.UseBCache
                  THEN [rtdev EXCEPT
                          !.Bcache = 1,
                          !.BcacheWritearound =
                              IF cfg.UseBCacheWB THEN 0 ELSE rtdev.BcacheWritearound]
                  ELSE rtdev
    IN  IF cfg.RtPLevelOverride # 0
        THEN [cached EXCEPT !.PlevelOverride = cfg.RtPLevelOverride]
        ELSE cached

\* Lines 156-180: the assignments of group i.
RECURSIVE GroupDevices(_, _, _)
GroupDevices(group, ssd, cfg) ==
    IF group = <<>> THEN <<>>
    ELSE <<HybridRTDevice(Head(group), ssd, cfg)>> \o GroupDevices(Tail(group), ssd, cfg)

\* Lines 155-181: the groups from index i on, each paired with ssds[i].
RECURSIVE HybridDevices(_, _, _, _)
HybridDevices(divided, ssds, cfg, i) ==
    IF i > Len(divided) THEN <<>>
    ELSE GroupDevices(divided[i], ssds[i], cfg) \o HybridDevices(divided, ssds, cfg, i + 1)

\* A variant that reports the count mismatch only after building the list.
HybridPolicy_late(hdds, ssds, cfg) ==
    LET divided == Divide(hdds, Len(ssds))
        built   == HybridDevices(divided, ssds, cfg, 1)
    IN  IF Len(hdds) < Len(ssds) \/ Len(ssds) = 0
        THEN [rtDevices |-> built,
              err |-> Errorf("Confusing use of useMetadataOffload parameter HDDs(%d) < SSDs(%d)\n",
                             <<Len(hdds), Len(ssds)>>),
              hdds_divided |-> divided]
        ELSE [rtDevices |-> built, err |-> NoError, hdds_divided |-> divided]

\* Lines 136-182: the hybrid policy.
HybridPolicy(hdds, ssds, cfg) ==
    IF Len(hdds) < Len(ssds) \/ Len(ssds) = 0
    THEN [rtDevices |-> <<>>,
          err |-> Errorf("Confusing use of useMetadataOffload parameter HDDs(%d) < SSDs(%d)\n",
                         <<Len(hdds), Len(ssds)>>),
          hdds_divided |-> <<>>]
    ELSE LET divided == Divide(hdds, Len(ssds))
         IN  [rtDevices |-> HybridDevices(divided, ssds, cfg, 1),
              err |-> NoError,
              hdds_divided |-> divided]

\* Lines 49-183.  The result carries hdds_divided, the local of the hybrid
\* branch (nil on every other path).
GetRTDevices(disks, config) ==
    IF config = NilConfig
    THEN [rtDevices |-> <<>>, err |-> Errorf("no pointer to StoreConfig provided", <<>>),
          hdds_divided |-> <<>>]
    ELSE IF Len(disks) = 0
    THEN [rtDevices |-> <<>>, err |-> NoError, hdds_divided |-> <<>>]
    ELSE LET cfg     == config[1]
             ssds    == Ssds(disks)
             hdds    == Hdds(disks)
             devices == Devices(disks)
         IN  IF cfg.UseAllSSD
             THEN IF NoMedia(ssds)
                  THEN [rtDevices |-> <<>>, err |-> Errorf("No SSD/NVMe media found", <<>>),
                        hdds_divided |-> <<>>]
                  ELSE [rtDevices |-> PlainDevices(SelectSeq(devices, IsSSD), cfg),
                        err |-> NoError, hdds_divided |-> <<>>]
             ELSE IF NoMedia(hdds)
             THEN [rtDevices |-> <<>>, err |-> Errorf("No HDD media found", <<>>),
                   hdds_divided |-> <<>>]
             ELSE IF ~cfg.UseMetadataOffload
             THEN [rtDevices |-> PlainDevices(SelectSeq(devices, IsHDD), cfg),
                   err |-> NoError, hdds_divided |-> <<>>]
             ELSE HybridPolicy(hdds, ssds, cfg)

----------------------------------------------------------------------------
(* GetRtlfsDevices.                                                        *)

\* filepath.Base on a Unix path (line 189): "" gives ".", trailing slashes
\* are dropped, the text after the last slash is kept, and a path of
\* slashes only gives "/".
RECURSIVE TrimTrailingSlashes(_)
TrimTrailingSlashes(path) ==
    IF Len(path) > 0 /\ path[Len(path)] = "/"
    THEN TrimTrailingSlashes(SubSeq(path, 1, Len(path) - 1))
    ELSE path

LastElement(path) ==
    LET seps == {i \in 1..Len(path) : path[i] = "/"}
    IN  IF seps = {} THEN path
        ELSE SubSeq(path, (CHOOSE i \in seps : \A j \in seps : j <= i) + 1, Len(path))

Base(path) ==
    IF path = EmptyStr THEN Dot
    ELSE LET last == LastElement(TrimTrailingSlashes(path))
         IN  IF last = EmptyStr THEN Slash ELSE last

\* Lines 188-201: the assignment of one directory.
RtlfsDeviceOf_mountcheck(dir, cfg) ==
    [ZeroRtlfsDevice EXCEPT
        !.Name = Base(dir.Path),
        !.Path = dir.Path,
        !.CheckMountpoint = 1,
        !.Psize = cfg.LmdbPageSize,
        !.VerifyChid = cfg.RtVerifyChid,
        !.Sync = cfg.Sync,
        !.Maxsize = cfg.MaxSize,
        !.PlevelOverride = cfg.RtPLevelOverride]

RtlfsDeviceOf(dir, cfg) ==
    LET rtlfsDevice == [ZeroRtlfsDevice EXCEPT
                          !.Name = Base(dir.Path),
                          !.Path = dir.Path,
                          !.CheckMountpoint = 0,
                          !.Psize = cfg.LmdbPageSize,
                          !.VerifyChid = cfg.RtVerifyChid,
                          !.Sync = cfg.Sync]
        sized == IF cfg.MaxSize # 0
                 THEN [rtlfsDevice EXCEPT !.Maxsize = cfg.MaxSize]
                 ELSE rtlfsDevice
    IN  IF cfg.RtPLevelOverride # 0
        THEN [sized EXCEPT !.PlevelOverride = cfg.RtPLevelOverride]
        ELSE sized

\* Lines 187-203: one assignment per directory, in order.
RECURSIVE RtlfsDevicesOf(_, _)
RtlfsDevicesOf(dirs, cfg) ==
    IF dirs = <<>> THEN <<>>
    ELSE <<RtlfsDeviceOf(Head(dirs), cfg)>> \o RtlfsDevicesOf(Tail(dirs), cfg)

\* Lines 185-205.  storeConfig is dereferenced without a nil check inside
\* the loop body (line 192): with a nil pointer the first iteration panics,
\* and with no directory the pointer is never read.
GetRtlfsDevices(dirs, config) ==
    IF Len(dirs) = 0 THEN [rtlfsDevices |-> <<>>, panic |-> FALSE]
    ELSE IF config = NilConfig THEN [rtlfsDevices |-> <<>>, panic |-> TRUE]
    ELSE [rtlfsDevices |-> RtlfsDevicesOf(dirs, config[1]), panic |-> FALSE]

----------------------------------------------------------------------------
(* Inputs.                                                                 *)

Letters == <<"a", "b", "c", "d", "e", "f", "g", "h", "i", "j">>

Digits == <<"0", "1", "2", "3", "4", "5", "6", "7", "8", "9">>

\* The k-th discovered disk is /dev/sd<letter>, with a wwn- link and a
\* short ata- (rotational) or nvme- (solid-state) link.
KernelName(k) == <<"s", "d", Letters[k]>>

ShortLink(k, rot) ==
    (IF rot THEN <<"a", "t", "a", "-">> ELSE <<"n", "v", "m", "e", "-">>) \o <<Digits[k]>>

DevLinksOf(k, rot) ==
    WwnTag \o <<"0", "x", Digits[k]>> \o Space \o ByIdDir \o ShortLink(k, rot)

DiskAt(k, shape) ==
    [Name |-> KernelName(k), DevLinks |-> DevLinksOf(k, shape[1]),
     Rotational |-> shape[1], Empty |-> shape[2], Partitions |-> shape[3]]

\* The disk lists of at most n disks whose disks have a shape of shapes
\* (rotational, empty, number of partitions).
DiskLists(n, shapes) ==
    UNION {{[k \in 1..m |-> DiskAt(k, f[k])] : f \in [1..m -> shapes]} : m \in 0..n}

\* Every combination of media type, Empty flag and "no partition" or
\* "MaxParts partitions".
AllShapes == BOOLEAN \X BOOLEAN \X {0, MaxParts}

\* The lists of the hybrid runs: each disk is an eligible rotational disk,
\* an eligible solid-state disk, or a disk in use (a rotational disk holding
\* data at odd positions, a partitioned solid-state disk at even ones).
KindShape(k, kind) ==
    CASE kind = "hdd" -> <<TRUE, TRUE, 0>>
      [] kind = "ssd" -> <<FALSE, TRUE, 0>>
      [] OTHER        -> IF k % 2 = 1 THEN <<TRUE, FALSE, 0>> ELSE <<FALSE, TRUE, MaxParts>>

HybridDiskLists ==
    UNION {{[k \in 1..m |-> DiskAt(k, KindShape(k, f[k]))] :
                f \in [1..m -> {"hdd", "ssd", "used"}]} : m \in 0..MaxHybridDisks}

Mask == <<"0", "x", "f", "f">>

RTConfigs ==
    [UseAllSSD : BOOLEAN, UseMetadataOffload : BOOLEAN, UseBCache : BOOLEAN,
     UseBCacheWB : {TRUE}, LmdbPageSize : {16384}, RtVerifyChid : {1}, Sync : {1},
     RtPLevelOverride : {0, MaxPLevel}, MaxSize : {0}, UseMetadataMask : {Mask}]

HybridConfigs ==
    [UseAllSSD : {FALSE}, UseMetadataOffload : {TRUE}, UseBCache : BOOLEAN,
     UseBCacheWB : BOOLEAN, LmdbPageSize : {16384}, RtVerifyChid : {1}, Sync : {1},
     RtPLevelOverride : {0}, MaxSize : {0}, UseMetadataMask : {Mask}]

RtlfsConfigs ==
    [UseAllSSD : {FALSE}, UseMetadataOffload : {FALSE}, UseBCache : {FALSE},
     UseBCacheWB : {FALSE}, LmdbPageSize : {4096, 16384}, RtVerifyChid : {0, 1},
     Sync : {0, 1}, RtPLevelOverride : 0..MaxPLevel, MaxSize : 0..MaxMaxSize,
     UseMetadataMask : {Mask}]

Pointers(configs) == {NilConfig} \cup {<<c>> : c \in configs}

Paths ==
    {EmptyStr, Slash,
     <<"/", "d", "a", "t", "a">>,
     <<"/", "m", "n", "t", "/", "d", "1", "/">>,
     <<"r", "e", "l">>}

DirectoryLists ==
    UNION {[1..m -> {[Path |-> p] : p \in Paths}] : m \in 0..MaxDirs}

\* Candidate link names: the three of the documented example, and names
\* with the directory or the wwn- tag in the middle.
Candidates ==
    {EmptyStr,
     <<"/", "d", "e", "v", "/", "d", "i", "s", "k", "/", "b", "y", "-", "i", "d", "/", "w", "w", "n", "-", "0", "x", "1", "2", "3">>,
     <<"/", "d", "e", "v", "/", "d", "i", "s", "k", "/", "b", "y", "-", "i", "d", "/", "a", "t", "a", "-", "X">>,
     <<"n", "e", "s", "t", "e", "d", "/", "p", "a", "t", "h", "-", "Y">>,
     <<"a", "t", "a", "-", "w", "w", "n", "-", "1">>,
     <<"x", "/", "d", "e", "v", "/", "d", "i", "s", "k", "/", "b", "y", "-", "i", "d", "/", "y">>,
     <<"w", "w", "n", "-", "0", "x", "2">>,
     <<"s", "d", "z">>}

RECURSIVE Join(_, _)
Join(parts, sep) ==
    IF Len(parts) = 1 THEN parts[1]
    ELSE parts[1] \o sep \o Join(Tail(parts), sep)

LinkStrings ==
    UNION {{Join(cs, Space) : cs \in [1..m -> Candidates]} : m \in 1..MaxCandidates}

----------------------------------------------------------------------------
(* The three entry points, each called once on an input.                   *)

Idle ==
    /\ pc = "start"
    /\ rtDevices = <<>>
    /\ err = NoError
    /\ hdds_divided = <<>>
    /\ rtlfsDevices = <<>>
    /\ dl = EmptyStr

InitRT ==
    /\ Idle
    /\ nodeDisks \in DiskLists(MaxDisks, AllShapes)
    /\ storeConfig \in Pointers(RTConfigs)
    /\ directories = <<>>
    /\ dls = EmptyStr

InitHybrid ==
    /\ Idle
    /\ nodeDisks \in HybridDiskLists
    /\ storeConfig \in Pointers(HybridConfigs) \ {NilConfig}
    /\ directories = <<>>
    /\ dls = EmptyStr

InitRtlfs ==
    /\ Idle
    /\ nodeDisks = <<>>
    /\ storeConfig \in Pointers(RtlfsConfigs)
    /\ directories \in DirectoryLists
    /\ dls = EmptyStr

InitLink ==
    /\ Idle
    /\ nodeDisks = <<>>
    /\ storeConfig = NilConfig
    /\ directories = <<>>
    /\ dls \in LinkStrings

CallGetRTDevices ==
    /\ pc = "start"
    /\ LET r == GetRTDevices(nodeDisks, storeConfig)
       IN  /\ rtDevices' = r.rtDevices
           /\ err' = r.err
           /\ hdds_divided' = r.hdds_divided
    /\ pc' = "returned"
    /\ UNCHANGED <<nodeDisks, storeConfig, directories, rtlfsDevices, dls, dl>>

CallGetRtlfsDevices ==
    /\ pc = "start"
    /\ LET r == GetRtlfsDevices(directories, storeConfig)
       IN  /\ rtlfsDevices' = r.rtlfsDevices
           /\ pc' = IF r.panic THEN "panicked" ELSE "returned"
    /\ UNCHANGED <<nodeDisks, storeConfig, rtDevices, err, hdds_divided, directories, dls, dl>>

CallGetIdDevLinkName ==
    /\ pc = "start"
    /\ dl' = getIdDevLinkName(dls)
    /\ pc' = "returned"
    /\ UNCHANGED <<nodeDisks, storeConfig, rtDevices, err, hdds_divided, directories,
                   rtlfsDevices, dls>>

NextRT == CallGetRTDevices

NextRtlfs == CallGetRtlfsDevices

NextLink == CallGetIdDevLinkName

Spec == InitRT /\ [][NextRT]_vars

SpecHybrid == InitHybrid /\ [][NextRT]_vars

SpecRtlfs == InitRtlfs /\ [][NextRtlfs]_vars

SpecLink == InitLink /\ [][NextLink]_vars

----------------------------------------------------------------------------
(* Vocabulary of the properties.                                           *)

Returned == pc = "returned"

\* Positions of nodeDisks, counted independently of the planner's lists.
EligibleIdx ==
    {k \in 1..Len(nodeDisks) : nodeDisks[k].Empty /\ nodeDisks[k].Partitions = 0}

IneligibleIdx == (1..Len(nodeDisks)) \ EligibleIdx

HddIdx == {k \in EligibleIdx : nodeDisks[k].Rotational}

SsdIdx == {k \in EligibleIdx : ~nodeDisks[k].Rotational}

\* The i-th smallest position of a set of positions.
Nth(idx, i) == CHOOSE k \in idx : Cardinality({j \in idx : j < k}) = i - 1

HasConfig == storeConfig # NilConfig

AllSSDCall == HasConfig /\ storeConfig[1].UseAllSSD

AllHDDCall ==
    HasConfig /\ ~storeConfig[1].UseAllSSD /\ ~storeConfig[1].UseMetadataOffload

HybridCall ==
    HasConfig /\ ~storeConfig[1].UseAllSSD /\ storeConfig[1].UseMetadataOffload

\* Positions of the eligible disks of the media type the policy requires.
RequiredIdx == IF AllSSDCall THEN SsdIdx ELSE HddIdx

GroupSize(i) == Len(hdds_divided[i])

RECURSIVE SizeUpTo(_)
SizeUpTo(i) == IF i = 0 THEN 0 ELSE SizeUpTo(i - 1) + GroupSize(i)

RECURSIVE GroupsFrom(_)
GroupsFrom(i) ==
    IF i > Len(hdds_divided) THEN <<>> ELSE hdds_divided[i] \o GroupsFrom(i + 1)

\* The group holding the n-th rotational disk.
GroupOf(n) ==
    CHOOSE i \in 1..Len(hdds_divided) : SizeUpTo(i - 1) < n /\ n <= SizeUpTo(i)

----------------------------------------------------------------------------
\* C1: under the hybrid policy with S >= 1 eligible solid-state disks and
\* H >= S eligible rotational disks, the partition loop leaves exactly S
\* groups, every one non-empty, of non-increasing sizes that differ by at
\* most 1 and sum to H, and the groups laid end to end are the eligible
\* rotational disks in discovery order.
C1_BalancedGroups ==
    (Returned /\ HybridCall /\ Cardinality(SsdIdx) >= 1
        /\ Cardinality(HddIdx) >= Cardinality(SsdIdx)) =>
        LET S == Cardinality(SsdIdx)
            H == Cardinality(HddIdx)
        IN  /\ Len(hdds_divided) = S
            /\ \A i \in 1..S : GroupSize(i) >= 1
            /\ \A i \in 1..(S - 1) : GroupSize(i) >= GroupSize(i + 1)
            /\ \A i, j \in 1..S : GroupSize(i) - GroupSize(j) <= 1
            /\ SizeUpTo(S) = H
            /\ GroupsFrom(1) = [n \in 1..H |-> nodeDisks[Nth(HddIdx, n)]]

\* Two groups over three rotational disks: sizes 2 and 1.
C1_Witness ==
    /\ Returned
    /\ HybridCall
    /\ Cardinality(SsdIdx) = 2
    /\ Cardinality(HddIdx) = 3
    /\ Len(hdds_divided) = 2
    /\ GroupSize(1) = 2
    /\ GroupSize(2) = 1

\* C2: a successful hybrid call returns one assignment per eligible
\* rotational disk, in discovery order; the assignment of a disk of group i
\* has the normalized name of the i-th eligible solid-state disk as Journal
\* and that name, a comma and useMetadataMask as Metadata.
C2_HybridPairing ==
    (Returned /\ HybridCall /\ err = NoError) =>
        /\ Len(rtDevices) = Cardinality(HddIdx)
        /\ \A n \in 1..Len(rtDevices) :
              LET hdd == nodeDisks[Nth(HddIdx, n)]
                  ssd == nodeDisks[Nth(SsdIdx, GroupOf(n))]
              IN  /\ rtDevices[n].Device = DevDir \o hdd.Name
                  /\ rtDevices[n].Name = getIdDevLinkName(hdd.DevLinks)
                  /\ rtDevices[n].Journal = getIdDevLinkName(ssd.DevLinks)
                  /\ rtDevices[n].Metadata =
                        getIdDevLinkName(ssd.DevLinks) \o Comma \o storeConfig[1].UseMetadataMask
                  /\ rtDevices[n].Journal \in
                        {getIdDevLinkName(nodeDisks[k].DevLinks) : k \in SsdIdx}

\* 4 rotational and 2 solid-state disks: the first two assignments carry the
\* first solid-state disk, the last two the second.
C2_Witness ==
    /\ Returned
    /\ HybridCall
    /\ err = NoError
    /\ Cardinality(HddIdx) = 4
    /\ Cardinality(SsdIdx) = 2
    /\ Len(rtDevices) = 4
    /\ rtDevices[1].Journal = ShortLink(Nth(SsdIdx, 1), FALSE)
    /\ rtDevices[2].Journal = rtDevices[1].Journal
    /\ rtDevices[3].Journal = ShortLink(Nth(SsdIdx, 2), FALSE)
    /\ rtDevices[4].Journal = rtDevices[3].Journal
    /\ rtDevices[4].Metadata = rtDevices[4].Journal \o Comma \o Mask

\* C3 as stated: with a configuration and no eligible disk of the required
\* media type, the call returns an error, for every disk list including the
\* empty one.
C3_Original ==
    (Returned /\ HasConfig /\ RequiredIdx = {}) => err # NoError

\* C3: with a configuration and a non-empty disk list that has no eligible
\* disk of the required media type, the call returns an error and no
\* assignment; with the empty disk list it returns the empty list and no
\* error.
C3_NoMediaIsError ==
    (Returned /\ HasConfig /\ RequiredIdx = {}) =>
        /\ rtDevices = <<>>
        /\ (Len(nodeDisks) > 0 => err # NoError)
        /\ (Len(nodeDisks) = 0 => err = NoError)

\* Disks were discovered, some are eligible, none of them is rotational, and
\* "No HDD media found" is reported.
C3_Witness ==
    /\ Returned
    /\ HasConfig
    /\ Len(nodeDisks) = MaxDisks
    /\ RequiredIdx = {}
    /\ EligibleIdx # {}
    /\ IneligibleIdx # {}
    /\ err = Errorf("No HDD media found", <<>>)

\* C4: for all four combinations of useBCache and useBCacheWB, every hybrid
\* assignment carries the cache fields of the documented truth table:
\* without useBCache, BcacheWritearound = 1 and Bcache = 0 whatever
\* useBCacheWB is; with useBCache, Bcache = 1 and BcacheWritearound = 0
\* exactly when useBCacheWB is set.  Line 162 takes BcacheWritearound from
\* useBCacheWB before useBCache is looked at, so the table fails with the
\* cache off and write-back requested.
C4_Original ==
    (Returned /\ HybridCall) =>
        \A n \in 1..Len(rtDevices) :
            LET cfg == storeConfig[1]
            IN  /\ ~cfg.UseBCache =>
                      rtDevices[n].BcacheWritearound = 1 /\ rtDevices[n].Bcache = 0
                /\ (cfg.UseBCache /\ ~cfg.UseBCacheWB) =>
                      rtDevices[n].BcacheWritearound = 1 /\ rtDevices[n].Bcache = 1
                /\ (cfg.UseBCache /\ cfg.UseBCacheWB) =>
                      rtDevices[n].BcacheWritearound = 0 /\ rtDevices[n].Bcache = 1

\* C5: under every policy, a disk that is not Empty or has a partition is
\* neither the device of an assignment nor its journal or metadata target.
C5_IneligibleNeverAppears ==
    Returned =>
        \A k \in 1..Len(nodeDisks) :
            (~nodeDisks[k].Empty \/ nodeDisks[k].Partitions > 0) =>
                \A n \in 1..Len(rtDevices) :
                    LET name == getIdDevLinkName(nodeDisks[k].DevLinks)
                    IN  /\ rtDevices[n].Device # DevDir \o nodeDisks[k].Name
                        /\ rtDevices[n].Name # name
                        /\ rtDevices[n].Journal # name
                        /\ ~Contains(rtDevices[n].Metadata, name)

\* A hybrid call that succeeds past a solid-state disk with partitions.
C5_Witness ==
    /\ Returned
    /\ HybridCall
    /\ err = NoError
    /\ Len(rtDevices) = 1
    /\ rtDevices[1].Journal # EmptyStr
    /\ \E k \in IneligibleIdx :
          /\ ~nodeDisks[k].Rotational
          /\ nodeDisks[k].Empty
          /\ nodeDisks[k].Partitions > 0
          /\ k < Nth(SsdIdx, 1)

\* C6: with at least one eligible disk of the required type, useAllSSD
\* (with or without useMetadataOffload) returns one assignment per eligible
\* solid-state disk and the plain rotational policy one per eligible
\* rotational disk, in discovery order, each with Device "/dev/" + Name, and
\* no disk of the other media type is the device of an assignment.
C6_NonHybridOutput ==
    (Returned /\ (AllSSDCall \/ AllHDDCall) /\ RequiredIdx # {}) =>
        /\ err = NoError
        /\ Len(rtDevices) = Cardinality(RequiredIdx)
        /\ \A n \in 1..Len(rtDevices) :
              rtDevices[n].Device = DevDir \o nodeDisks[Nth(RequiredIdx, n)].Name
        \* the disks of the other media type: rotational ones under useAllSSD
        /\ \A k \in 1..Len(nodeDisks) :
              (nodeDisks[k].Rotational = AllSSDCall) =>
                  \A n \in 1..Len(rtDevices) :
                      rtDevices[n].Device # DevDir \o nodeDisks[k].Name

\* useAllSSD together with useMetadataOffload, over eligible disks of both
\* media types: only the solid-state ones are assigned.
C6_Witness ==
    /\ Returned
    /\ AllSSDCall
    /\ storeConfig[1].UseMetadataOffload
    /\ HddIdx # {}
    /\ Cardinality(SsdIdx) = 2
    /\ Len(rtDevices) = 2
    /\ rtDevices[2].Device = DevDir \o KernelName(Nth(SsdIdx, 2))

\* C10: a call that returns an error returns no assignment, and a call that
\* returns an assignment returns no error.
C10_NoPartialOutput ==
    Returned =>
        /\ (err # NoError => rtDevices = <<>>)
        /\ (rtDevices # <<>> => err = NoError)

\* The hybrid count mismatch with rotational disks at hand.
C10_Witness ==
    /\ Returned
    /\ HybridCall
    /\ Cardinality(HddIdx) = 1
    /\ Cardinality(SsdIdx) = 2
    /\ err = Errorf("Confusing use of useMetadataOffload parameter HDDs(%d) < SSDs(%d)\n",
                    <<1, 2>>)
    /\ rtDevices = <<>>

\* strings.HasPrefix and strings.TrimPrefix, the reading of C7 as stated.
HasPrefix(s, prefix) == HasAt(s, prefix, 1)

TrimPrefix(s, prefix) ==
    IF HasPrefix(s, prefix) THEN SubSeq(s, Len(prefix) + 1, Len(s)) ELSE s

\* The least position of a non-empty set of positions.
Least(idx) == CHOOSE i \in idx : \A j \in idx : i <= j

\* C7 as stated: the result is the first space-separated candidate that,
\* with its "/dev/disk/by-id/" prefix removed, contains no "/" and does not
\* begin with "wwn-", and is empty when there is none.
C7_Original ==
    Returned =>
        LET c    == Split(dls, Space)
            kept == {i \in 1..Len(c) :
                        /\ ~Contains(TrimPrefix(c[i], ByIdDir), Slash)
                        /\ ~HasPrefix(TrimPrefix(c[i], ByIdDir), WwnTag)}
        IN  IF kept = {} THEN dl = EmptyStr
            ELSE dl = TrimPrefix(c[Least(kept)], ByIdDir)

\* C7: the result is the first space-separated candidate that, with the
\* first occurrence of "/dev/disk/by-id/" removed from it (wherever it is),
\* contains neither "/" nor "wwn-" anywhere; it is the candidate so
\* shortened, and it is empty when no candidate qualifies.
C7_LinkName ==
    Returned =>
        LET c    == Split(dls, Space)
            kept == {i \in 1..Len(c) :
                        /\ ~Contains(StripById(c[i]), Slash)
                        /\ ~Contains(StripById(c[i]), WwnTag)}
        IN  IF kept = {} THEN dl = EmptyStr
            ELSE dl = StripById(c[Least(kept)])

\* The documented example:
\* "/dev/disk/by-id/wwn-0x123 /dev/disk/by-id/ata-X nested/path-Y" gives "ata-X".
C7_Witness ==
    /\ Returned
    /\ dls = ByIdDir \o WwnTag \o <<"0", "x", "1", "2", "3">> \o Space
               \o ByIdDir \o <<"a", "t", "a", "-", "X">> \o Space
               \o <<"n", "e", "s", "t", "e", "d", "/", "p", "a", "t", "h", "-", "Y">>
    /\ dl = <<"a", "t", "a", "-", "X">>

\* C8: GetRtlfsDevices called with a nil StoreConfig, on directories for
\* which it reads the configuration, does not crash: it returns to its
\* caller and reports an error.
C8_NilConfigReported ==
    (pc # "start" /\ storeConfig = NilConfig /\ directories # <<>>) =>
        (Returned /\ err # NoError)

\* C9: with a configuration, GetRtlfsDevices returns one assignment per
\* directory, in input order, with CheckMountpoint 0, the directory path,
\* the page size, verify and sync values of the configuration, Maxsize =
\* maxSize and PlevelOverride = rtPLevelOverride; an empty directory list
\* gives an empty result.
C9_DirectoryPlan ==
    /\ (Returned /\ HasConfig) =>
          /\ Len(rtlfsDevices) = Len(directories)
          /\ \A n \in 1..Len(rtlfsDevices) :
                /\ rtlfsDevices[n].CheckMountpoint = 0
                /\ rtlfsDevices[n].Path = directories[n].Path
                /\ rtlfsDevices[n].Psize = storeConfig[1].LmdbPageSize
                /\ rtlfsDevices[n].VerifyChid = storeConfig[1].RtVerifyChid
                /\ rtlfsDevices[n].Sync = storeConfig[1].Sync
                /\ rtlfsDevices[n].Maxsize = storeConfig[1].MaxSize
                /\ rtlfsDevices[n].PlevelOverride = storeConfig[1].RtPLevelOverride
    /\ (pc # "start" /\ directories = <<>>) => (Returned /\ rtlfsDevices = <<>>)

\* Two directories planned with a capacity cap and a partition-level
\* override.
C9_Witness ==
    /\ Returned
    /\ HasConfig
    /\ Len(directories) = 2
    /\ directories[1].Path # directories[2].Path
    /\ storeConfig[1].MaxSize # 0
    /\ storeConfig[1].RtPLevelOverride # 0
    /\ Len(rtlfsDevices) = 2
    /\ rtlfsDevices[2].Path = directories[2].Path
    /\ rtlfsDevices[2].Maxsize = storeConfig[1].MaxSize

====
